---- MODULE Spec2Model ----
(***************************************************************************)
(* A model of no-cloud (saalaa/no-cloud): the passphrase cipher of         *)
(* no_cloud/crypto.py (fernet_encrypt, fernet_decrypt), the password       *)
(* derivation of the `password` command (no_cloud/cli.py) with             *)
(* sha512_hash and digest, and the commands on files: rename, encrypt,     *)
(* decrypt, and the configuration lookup of push and pull (find_in_path,   *)
(* no_cloud/fs.py), on a tree of paths written as Python strings.          *)
(*                                                                         *)
(* Byte strings are sequences of 0..255, text strings sequences of code    *)
(* points; a value carries its Python type, because the code branches on   *)
(* isinstance(x, six.text_type).                                           *)
(*                                                                         *)
(* Library primitives the code calls are modelled by what the code relies  *)
(* on:                                                                     *)
(*   - base64 is computed bit for bit (binascii's lenient decoder          *)
(*     included);                                                          *)
(*   - MD5 is a fixed, non-injective compression: its published            *)
(*     collisions are too long to enumerate, so the model narrows each     *)
(*     half of the digest to MD5Lane values and keeps their effect, two    *)
(*     passphrases with one digest, at a size TLC explores;                *)
(*   - HMAC-SHA256 is an ideal MAC: a tag verifies only if the MAC         *)
(*     produced it for that key and message (macLog);                      *)
(*   - AES-128-CBC is a keyed bijection on blocks with CBC chaining;       *)
(*   - PBKDF2-HMAC-SHA512 is a fixed function of (password, salt,          *)
(*     iterations) to 64 bytes that tells its argument roles apart.        *)
(***************************************************************************)
EXTENDS Integers, Sequences, FiniteSets, TLC

VARIABLES
    phase,        \* cipher scenario: "idle", "token" (a token exists), "done"
    plaintext,    \* the message handed to fernet_encrypt
    encPassword,  \* the passphrase handed to fernet_encrypt
    token,        \* the token: the bytes fernet_encrypt returned, or a tampered copy
    macLog,       \* the (key, message, tag) triples HMAC has produced
    flipped,      \* <<>> or <<position, bit>>: the bit of the token that was flipped
    decPassword,  \* the passphrase handed to fernet_decrypt
    result,       \* what fernet_decrypt returned or raised
    input,        \* `password` command: its options and what the user types
    runs,         \* how many times the command ran on `input`
    clipboard,    \* the system clipboard pyperclip talks to
    disturbed,    \* another program used the clipboard after the first run
    events,       \* the prompts and lines of output of the last run, in order
    outcome,      \* how the last run ended
    config,       \* the last run's `config` dict when it ended
    alphabet,     \* the last run's `characters` (the digest alphabet)
    chain,        \* the last run's two hashes, <<h1, h2>>
    emitted,      \* the password the last run handed to done()
    firstDerived, \* the password the first deriving run handed to done()
    dHashed,      \* digest(): its arguments and what it returned
    dChars,
    dLength,
    dOut,
    tree,         \* the files: path |-> what is there (rename, encrypt, decrypt)
    orig,         \* the files before the command ran
    rn,           \* `rename` command: its arguments, its list `files`, its position
    vc,           \* `encrypt` and `decrypt` commands: arguments and position
    fp            \* find_in_path: the tree it searches, the call in progress

cipherVars == <<phase, plaintext, encPassword, token, macLog, flipped,
                decPassword, result>>

passwordVars == <<input, runs, clipboard, disturbed, events, outcome, config,
                  alphabet, chain, emitted, firstDerived>>

digestVars == <<dHashed, dChars, dLength, dOut>>

fileVars == <<tree, orig, rn, vc, fp>>

vars == <<cipherVars, passwordVars, digestVars, fileVars>>

----------------------------------------------------------------------------
(* Bounds of the model. *)

NumPass == 3          \* passphrases "pw1" .. "pw<NumPass>" (and one non-ASCII)
MaxPlainBlocks == 2   \* plaintexts of 16, .. 16 * MaxPlainBlocks bytes (and "hello world")
NumIVs == 1           \* initialisation vectors os.urandom may return
MD5Lane == 2          \* values of each half of the model's MD5 digest
MaxIterations == 2    \* --iterations is in 0 .. MaxIterations
MaxRuns == 2          \* runs of the password command on one input
MaxHashBytes == 3     \* digest(): `hashed` has at most this many bytes
MaxAlphabet == 3      \* digest(): `characters` has at most this many characters
MaxNames == 2         \* rename: the directory holds at most this many plain files (and 'c')
RecursionLimit == 6      \* calls of find_in_path inside one another before Python gives up

----------------------------------------------------------------------------
(* Python values. *)

Text(s) == [type |-> "text", val |-> s]
Bytes(s) == [type |-> "bytes", val |-> s]
NoValue == [type |-> "none", val |-> <<>>]

\* isinstance(x, six.text_type)
IsText(x) == x.type = "text"

\* A function on 1..n as a sequence value.
AsSeq(f, n) == SubSeq(f, 1, n)

Rep(b, n) == AsSeq([i \in 1..n |-> b], n)

RECURSIVE Sum(_)
Sum(s) == IF s = <<>> THEN 0 ELSE Head(s) + Sum(Tail(s))

\* s[a:b] of Python for 0 <= a, 0 <= b (0-based, end exclusive, clipped).
Slice(s, a, b) == SubSeq(s, a + 1, IF b > Len(s) THEN Len(s) ELSE b)

\* One code point as UTF-8.
Utf8Char(cp) ==
    IF cp < 128 THEN <<cp>>
    ELSE IF cp < 2048 THEN <<192 + (cp \div 64), 128 + (cp % 64)>>
    ELSE <<224 + (cp \div 4096), 128 + ((cp \div 64) % 64), 128 + (cp % 64)>>

\* text.encode('utf-8')
RECURSIVE EncodeUtf8(_)
EncodeUtf8(s) == IF s = <<>> THEN <<>> ELSE Utf8Char(Head(s)) \o EncodeUtf8(Tail(s))

----------------------------------------------------------------------------
(* Python strings and posixpath: what fs.py and cli.py do with file names.   *)
(* A file name is the sequence of its characters.                           *)

Slash == 47    \* the character of a slash
Dot == 46      \* '.'

DotCrypt == <<46, 99, 114, 121, 112, 116>>    \* '.crypt'

\* s.startswith(pre), s.endswith(suf)
StartsWith(s, pre) == Len(s) >= Len(pre) /\ SubSeq(s, 1, Len(pre)) = pre
EndsWith(s, suf) ==
    Len(s) >= Len(suf) /\ SubSeq(s, Len(s) - Len(suf) + 1, Len(s)) = suf

\* s.find(c) and s.rfind(c), counted from 1; 0 when c is not in s.
Find(s, c) ==
    IF \E i \in 1..Len(s) : s[i] = c
    THEN CHOOSE i \in 1..Len(s) : s[i] = c /\ \A j \in 1..(i - 1) : s[j] # c
    ELSE 0

RFind(s, c) ==
    IF \E i \in 1..Len(s) : s[i] = c
    THEN CHOOSE i \in 1..Len(s) : s[i] = c /\ \A j \in (i + 1)..Len(s) : s[j] # c
    ELSE 0

\* s.rstrip(c), s.lstrip(c)
RECURSIVE RStrip(_, _)
RStrip(s, c) ==
    IF s # <<>> /\ s[Len(s)] = c THEN RStrip(SubSeq(s, 1, Len(s) - 1), c) ELSE s

RECURSIVE LStrip(_, _)
LStrip(s, c) == IF s # <<>> /\ Head(s) = c THEN LStrip(Tail(s), c) ELSE s

\* One pass of s.replace(old, new), left to right, without overlap.
RECURSIVE Replace(_, _, _)
Replace(s, old, new) ==
    IF s = <<>> THEN <<>>
    ELSE IF StartsWith(s, old)
    THEN new \o Replace(SubSeq(s, Len(old) + 1, Len(s)), old, new)
    ELSE <<Head(s)>> \o Replace(Tail(s), old, new)

\* os.path.dirname(p), os.path.basename(p)
DirnameHead(head) ==
    IF head # <<>> /\ RStrip(head, Slash) # <<>> THEN RStrip(head, Slash) ELSE head

dirname(p) == DirnameHead(SubSeq(p, 1, RFind(p, Slash)))

basename(p) == SubSeq(p, RFind(p, Slash) + 1, Len(p))

\* os.path.splitext(p): the extension starts at the last dot of the last
\* component, unless only dots come before it in that component.
splitext(p) ==
    IF /\ RFind(p, Dot) > RFind(p, Slash)
       /\ \E k \in (RFind(p, Slash) + 1)..(RFind(p, Dot) - 1) : p[k] # Dot
    THEN <<SubSeq(p, 1, RFind(p, Dot) - 1), SubSeq(p, RFind(p, Dot), Len(p))>>
    ELSE <<p, <<>>>>

\* cleanup_path(path, keep_leading=True)
cleanup_path(path) == RStrip(Replace(path, <<Slash, Slash>>, <<Slash>>), Slash)

\* The working directory of the command.
Cwd == <<Slash, 104>>    \* '/h'

\* The file a path names, as the kernel resolves it: relative to Cwd, runs
\* of slashes as one, no slash at the end.
RECURSIVE Squeeze(_)
Squeeze(p) ==
    IF Len(p) < 2 THEN p
    ELSE IF p[1] = Slash /\ p[2] = Slash THEN Squeeze(Tail(p))
    ELSE <<Head(p)>> \o Squeeze(Tail(p))

Absolute(p) == IF p # <<>> /\ p[1] = Slash THEN p ELSE Cwd \o <<Slash>> \o p

Resolve(p) ==
    IF RStrip(Squeeze(Absolute(p)), Slash) = <<>> THEN <<Slash>>
    ELSE RStrip(Squeeze(Absolute(p)), Slash)

\* os.path.abspath(p), for paths without '.' and '..' components
abspath(p) == Resolve(p)

----------------------------------------------------------------------------
(* The file tree: a function from resolved paths to what is there.          *)

FileOf(data) == [kind |-> "file", data |-> data]
Directory == [kind |-> "dir", data |-> <<>>]

\* os.path.isfile(p): a path that ends with a slash names no file.
isfile(t, p) ==
    /\ p # <<>>
    /\ p[Len(p)] # Slash
    /\ Resolve(p) \in DOMAIN t
    /\ t[Resolve(p)].kind = "file"

isdir(t, p) ==
    \/ Resolve(p) = <<Slash>>
    \/ Resolve(p) \in DOMAIN t /\ t[Resolve(p)].kind = "dir"

Put(t, q, e) == [x \in DOMAIN t \cup {q} |-> IF x = q THEN e ELSE t[x]]
Remove(t, q) == [x \in DOMAIN t \ {q} |-> t[x]]

\* The content of a file.
Read(t, p) == t[Resolve(p)].data

----------------------------------------------------------------------------
(* base64 (base64.urlsafe_b64encode, base64.urlsafe_b64decode). *)

Pow2(n) == IF n = 0 THEN 1 ELSE IF n = 1 THEN 2 ELSE IF n = 2 THEN 4
           ELSE IF n = 3 THEN 8 ELSE IF n = 4 THEN 16 ELSE IF n = 5 THEN 32
           ELSE IF n = 6 THEN 64 ELSE IF n = 7 THEN 128 ELSE 256

PadChar == 61   \* '='

\* The URL-safe alphabet: A-Z a-z 0-9 - _
B64Char(v) ==
    IF v < 26 THEN 65 + v
    ELSE IF v < 52 THEN 71 + v
    ELSE IF v < 62 THEN v - 4
    ELSE IF v = 62 THEN 45 ELSE 95

urlsafe_b64encode(b) ==
    LET n == Len(b)
        at(k) == IF k <= n THEN b[k] ELSE 0
        ch(i) ==
            LET g == (i - 1) \div 4
                k == (i - 1) % 4
                b1 == at(3 * g + 1)
                b2 == at(3 * g + 2)
                b3 == at(3 * g + 3)
            IN  IF k = 0 THEN B64Char(b1 \div 4)
                ELSE IF k = 1 THEN B64Char((b1 % 4) * 16 + (b2 \div 16))
                ELSE IF k = 2 THEN
                    IF 3 * g + 2 > n THEN PadChar
                    ELSE B64Char((b2 % 16) * 4 + (b3 \div 64))
                ELSE IF 3 * g + 3 > n THEN PadChar ELSE B64Char(b3 % 64)
    IN  AsSeq([i \in 1..(4 * ((n + 2) \div 3)) |-> ch(i)], 4 * ((n + 2) \div 3))

\* s.translate: '-' becomes '+', '_' becomes '/'; '+' and '/' stay as they are.
Translate(c) == IF c = 45 THEN 43 ELSE IF c = 95 THEN 47 ELSE c

\* binascii's table_a2b_base64: the value of a character of the standard
\* alphabet, 0 for the pad character, -1 for any other character.
TableA2B(c) ==
    IF c >= 65 /\ c <= 90 THEN c - 65
    ELSE IF c >= 97 /\ c <= 122 THEN c - 71
    ELSE IF c >= 48 /\ c <= 57 THEN c + 4
    ELSE IF c = 43 THEN 62
    ELSE IF c = 47 THEN 63
    ELSE IF c = PadChar THEN 0
    ELSE -1

IsValidChar(c) == c <= 127 /\ TableA2B(c) # -1
IsDataChar(c) == IsValidChar(c) /\ c # PadChar

\* binascii.a2b_base64, its loop in closed form. Characters outside the
\* alphabet are skipped. A pad character ends the input when it stands at
\* position 3 of a quad, or at position 2 with a pad as the next valid
\* character (binascii_find_valid); any other pad is skipped. The characters
\* before the end are read 6 bits each; bits left over, when no pad ended the
\* input, are the error "Incorrect padding"; after a pad they are dropped.

\* The pad characters of v (the valid characters) that end the input.
A2BStops(v) ==
    LET dataBefore(j) == Len(SelectSeq(SubSeq(v, 1, j - 1), IsDataChar))
    IN  {j \in 1..Len(v) :
            /\ v[j] = PadChar
            /\ \/ dataBefore(j) % 4 = 3
               \/ /\ dataBefore(j) % 4 = 2
                  /\ j + 1 <= Len(v)
                  /\ v[j + 1] = PadChar}

\* The values of the data characters read.
A2BValues(v, stops) ==
    LET stop == IF stops = {} THEN Len(v) + 1
                ELSE CHOOSE j \in stops : \A k \in stops : j <= k
    IN  SelectSeq(SubSeq(v, 1, stop - 1), IsDataChar)

A2BBytes(d) ==
    LET byte(k) ==
            LET g == 4 * ((k - 1) \div 3)
                r == (k - 1) % 3
            IN  IF r = 0
                THEN TableA2B(d[g + 1]) * 4 + (TableA2B(d[g + 2]) \div 16)
                ELSE IF r = 1
                THEN (TableA2B(d[g + 2]) % 16) * 16 + (TableA2B(d[g + 3]) \div 4)
                ELSE (TableA2B(d[g + 3]) % 4) * 64 + TableA2B(d[g + 4])
    IN  AsSeq([k \in 1..((6 * Len(d)) \div 8) |-> byte(k)], (6 * Len(d)) \div 8)

A2BResult(padded, d) ==
    [ok |-> padded \/ (6 * Len(d)) % 8 = 0, bytes |-> A2BBytes(d)]

A2BDecode(v, stops) == A2BResult(stops # {}, A2BValues(v, stops))

A2BValid(v) == A2BDecode(v, A2BStops(v))

a2b_base64(s) == A2BValid(SelectSeq(s, IsValidChar))

\* base64.urlsafe_b64decode: [ok, bytes]; not ok is the TypeError that
\* b64decode makes of binascii.Error.
urlsafe_b64decode(s) ==
    a2b_base64(AsSeq([i \in 1..Len(s) |-> Translate(s[i])], Len(s)))

----------------------------------------------------------------------------
(* hashlib.md5. *)

\* The digest, 16 bytes. The first half is decided by one lane of the input,
\* the second half by another.
MD5(b) ==
    LET s == Sum(b)
        laneA == s % MD5Lane
        laneB == (s \div MD5Lane) % MD5Lane
    IN  [i \in 1..16 |-> IF i <= 8 THEN (37 * laneA + 11 * i) % 256
                         ELSE (53 * laneB + 7 * i + 128) % 256]

HexDigit(n) == IF n < 10 THEN 48 + n ELSE 87 + n

\* .hexdigest(): 32 lowercase hexadecimal digits, a native string.
HexDigest(d) ==
    Text([i \in 1..(2 * Len(d)) |->
            IF i % 2 = 1 THEN HexDigit(d[(i + 1) \div 2] \div 16)
            ELSE HexDigit(d[i \div 2] % 16)])

----------------------------------------------------------------------------
(* cryptography.fernet.Fernet. *)

BlockLen == 16
TagLen == 32
FernetVersion == 128   \* 0x80

\* Fernet(key): the key is base64 of 32 bytes, 16 to sign and 16 to encrypt.
\* [ok, signing, encryption]; not ok is the ValueError of a malformed key.
FernetKeyOf(d) ==
    IF d.ok /\ Len(d.bytes) = 32
    THEN [ok |-> TRUE, signing |-> Slice(d.bytes, 0, 16),
          encryption |-> Slice(d.bytes, 16, 32)]
    ELSE [ok |-> FALSE, signing |-> <<>>, encryption |-> <<>>]

FernetKey(b64key) == FernetKeyOf(urlsafe_b64decode(b64key))

\* struct.pack(">Q", t)
PackTime(t) ==
    [i \in 1..8 |->
        IF i = 8 THEN t % 256
        ELSE IF i = 7 THEN (t \div 256) % 256
        ELSE IF i = 6 THEN (t \div 65536) % 256
        ELSE IF i = 5 THEN (t \div 16777216) % 256
        ELSE 0]

PKCS7Pad(m) ==
    LET n == BlockLen - (Len(m) % BlockLen) IN m \o Rep(n, n)

\* [ok, bytes]; not ok is the ValueError of an invalid padding.
PKCS7Unpad(p) ==
    LET n == IF p = <<>> THEN 0 ELSE p[Len(p)] IN
    IF /\ Len(p) > 0
       /\ Len(p) % BlockLen = 0
       /\ n >= 1
       /\ n <= BlockLen
       /\ \A i \in (Len(p) - n + 1)..Len(p) : p[i] = n
    THEN [ok |-> TRUE, bytes |-> Slice(p, 0, Len(p) - n)]
    ELSE [ok |-> FALSE, bytes |-> <<>>]

KeyByte(key, n) == key[((n - 1) % BlockLen) + 1]

\* AES-128 in CBC mode: each block is combined with the block before it (the
\* IV for the first) and put through the keyed bijection.
RECURSIVE CBCEncrypt(_, _, _)
CBCEncrypt(key, iv, p) ==
    IF p = <<>> THEN <<>>
    ELSE LET c == [n \in 1..BlockLen |-> (p[n] + key[n] + iv[n]) % 256]
         IN  c \o CBCEncrypt(key, c, Slice(p, BlockLen, Len(p)))

CBCDecrypt(key, iv, c) ==
    AsSeq([n \in 1..Len(c) |->
            (c[n] + 512 - KeyByte(key, n)
                  - (IF n <= BlockLen THEN iv[n] ELSE c[n - BlockLen])) % 256],
          Len(c))

\* HMAC-SHA256(key, message): the tag's bytes.
HMACTag(key, msg) ==
    [i \in 1..TagLen |-> (key[1] + 3 * msg[Len(msg)] + 5 * Len(msg) + i) % 256]

\* h.verify(tag): the ideal MAC accepts only what it produced.
HMACVerify(key, msg, tag) == <<key, msg, tag>> \in macLog

\* What Fernet.encrypt signs: version, timestamp, IV, ciphertext.
FernetBody(key, message, now, iv) ==
    <<FernetVersion>> \o PackTime(now) \o iv
        \o CBCEncrypt(key.encryption, iv, PKCS7Pad(message))

\* The token of a signed body.
FernetSign(key, body) == urlsafe_b64encode(body \o HMACTag(key.signing, body))

\* Fernet(key).encrypt(message) at time `now` with the random IV `iv`.
FernetEncrypt(key, message, now, iv) ==
    FernetSign(key, FernetBody(key, message, now, iv))

\* Fernet(key).decrypt(tok) without ttl: [ok, bytes]; not ok is InvalidToken.
InvalidToken == [ok |-> FALSE, bytes |-> <<>>]
FernetDecryptData(key, d) ==
    LET n == Len(d.bytes) IN
        IF ~d.ok THEN InvalidToken
        ELSE IF n = 0 \/ d.bytes[1] # FernetVersion THEN InvalidToken
        ELSE IF n < 9 THEN InvalidToken
        ELSE IF n < TagLen
                \/ ~HMACVerify(key.signing, Slice(d.bytes, 0, n - TagLen),
                               Slice(d.bytes, n - TagLen, n))
        THEN InvalidToken
        ELSE IF Len(Slice(d.bytes, 9, 25)) # BlockLen
                \/ Len(Slice(d.bytes, 25, n - TagLen)) % BlockLen # 0
        THEN InvalidToken
        ELSE PKCS7Unpad(CBCDecrypt(key.encryption, Slice(d.bytes, 9, 25),
                                   Slice(d.bytes, 25, n - TagLen)))

FernetDecrypt(key, tok) == FernetDecryptData(key, urlsafe_b64decode(tok))

----------------------------------------------------------------------------
(* no_cloud/crypto.py: fernet_encrypt, fernet_decrypt. *)

\* if isinstance(x, six.text_type): x = x.encode('utf-8')
EncodeIfText(x) == IF IsText(x) THEN Bytes(EncodeUtf8(x.val)) ELSE x

\* crypto.py 12-20: the Fernet key fernet_encrypt makes of the password.
EncryptKey(password) ==
    urlsafe_b64encode(
        EncodeIfText(HexDigest(MD5(EncodeIfText(password).val))).val)

\* A decryption that encodes a text password as Latin-1, not UTF-8.
DecryptKeyLatin1(password) ==
    urlsafe_b64encode(
        EncodeIfText(HexDigest(MD5(IF IsText(password)
                                   THEN AsSeq([i \in 1..Len(password.val) |->
                                                password.val[i] % 256],
                                              Len(password.val))
                                   ELSE password.val))).val)

\* crypto.py 27-35: the Fernet key fernet_decrypt makes of the password.
DecryptKey(password) ==
    urlsafe_b64encode(
        EncodeIfText(HexDigest(MD5(EncodeIfText(password).val))).val)

\* fernet_encrypt(message, password), at time `now`, os.urandom giving `iv`.
fernet_encrypt(message, password, now, iv) ==
    FernetEncrypt(FernetKey(EncryptKey(password)), message, now, iv)

Returned(b) == [kind |-> "return", msg |-> "", data |-> b]
Raised(kind, msg) == [kind |-> kind, msg |-> msg, data |-> <<>>]
NoResult == [kind |-> "none", msg |-> "", data |-> <<>>]

\* A decryption that lets InvalidToken through.
DecryptWithUncaught(key, r) ==
    IF ~key.ok THEN Raised("ValueError", "Fernet key must be 32 url-safe base64-encoded bytes.")
    ELSE IF r.ok THEN Returned(r.bytes)
    ELSE Raised("InvalidToken", "")

\* crypto.py 37-41: Fernet(password).decrypt(message); InvalidToken becomes
\* the AssertionError. Fernet(password) itself raises ValueError for a key
\* that is not base64 of 32 bytes.
DecryptWith(key, r) ==
    IF ~key.ok THEN Raised("ValueError", "Fernet key must be 32 url-safe base64-encoded bytes.")
    ELSE IF r.ok THEN Returned(r.bytes)
    ELSE Raised("AssertionError", "invalid decryption password")

FernetDecryptWith(key, message) == DecryptWith(key, FernetDecrypt(key, message))

\* fernet_decrypt(message, password)
fernet_decrypt(message, password) ==
    FernetDecryptWith(FernetKey(DecryptKey(password)), message)

----------------------------------------------------------------------------
(* no_cloud/crypto.py: sha512_hash, digest. *)

HashLen == 64   \* bytes of a SHA-512 based hash

\* What PBKDF2 reads of a byte string in the model.
Mix(b) == IF b = <<>> THEN 0 ELSE 5 * Len(b) + b[1] + 3 * b[Len(b)]

\* hashlib.pbkdf2_hmac('sha512', password, salt, iterations): HashLen bytes,
\* a fixed function of its three arguments in which password and salt play
\* different roles.
PBKDF2HmacSha512(pw, salt, iterations) ==
    AsSeq([i \in 1..HashLen |->
            (31 * Mix(pw) + 17 * Mix(salt) + 7 * iterations
                + (13 + 2 * (Mix(pw) % 5)) * i) % 256], HashLen)

\* A hash that takes its message for the salt and its salt for the message.
sha512_hash_swapped(message, salt, iterations) ==
    Bytes(PBKDF2HmacSha512(EncodeIfText(salt).val, EncodeIfText(message).val,
                           iterations))

\* sha512_hash(message, salt, iterations)
sha512_hash(message, salt, iterations) ==
    Bytes(PBKDF2HmacSha512(EncodeIfText(message).val, EncodeIfText(salt).val,
                           iterations))

\* hashed[:length], the first bytes and not the last.
FirstOf(hashed, length) == Slice(hashed, 0, IF length > 0 THEN length ELSE 0)

\* hashed[-length:] of Python.
LastOf(hashed, length) ==
    IF length > 0
    THEN Slice(hashed, IF length > Len(hashed) THEN 0 ELSE Len(hashed) - length,
               Len(hashed))
    ELSE Slice(hashed, -length, Len(hashed))

\* The loop of digest(): one character of `characters` per byte.
RECURSIVE DigestLoop(_, _, _)
DigestLoop(bytes, characters, acc) ==
    IF bytes = <<>> THEN acc
    ELSE LET c0 == Head(bytes)
             c == IF c0 >= Len(characters) THEN c0 % Len(characters) ELSE c0
         IN  DigestLoop(Tail(bytes), characters, Append(acc, characters[c + 1]))

\* A digest of all of `hashed`, whatever `length` is.
digest_whole(hashed, characters, length) == DigestLoop(hashed, characters, <<>>)

\* digest(hashed, characters, length)
digest(hashed, characters, length) ==
    DigestLoop(LastOf(hashed, length), characters, <<>>)

----------------------------------------------------------------------------
(* no_cloud/utils.py: copy_to_clipboard; no_cloud/fs.py: load_configuration. *)

CopiedMarker == Text(<<42>>)   \* '*copied to clipboard*'

\* pyperclip.copy(value)
ClipboardAfterCopy(clip, value) ==
    IF clip.works THEN [clip EXCEPT !.content = value] ELSE clip

\* copy_to_clipboard(value): what it returns.
copy_to_clipboard(clip, value) ==
    IF ClipboardAfterCopy(clip, value).content = value THEN CopiedMarker ELSE value

\* is_encrypted(filename)
is_encrypted(filename) == EndsWith(filename, DotCrypt)

\* nth(generator, i)
nth(docs, i) ==
    IF i >= 0 /\ i < Len(docs) THEN [found |-> TRUE, doc |-> docs[i + 1]]
    ELSE [found |-> FALSE, doc |-> <<>>]

Prompt(what) == [op |-> "prompt", what |-> what, text |-> NoValue]
Echo(what, text) == [op |-> "echo", what |-> what, text |-> text]

\* load_configuration(filename, version): the prompt it makes, and the
\* document it returns (None when the file has no such document), or the
\* error fernet_decrypt raises. The file was encrypted with file.passphrase:
\* decryption succeeds when the passphrase typed derives the same key.
Loaded(enc, ok, docs, version) ==
    [events |-> IF enc THEN <<Prompt("Decryption password")>> ELSE <<>>,
     ok |-> ok,
     data |-> IF ok THEN nth(docs, version) ELSE nth(<<>>, 0)]

load_configuration(file, version, typed) ==
    Loaded(is_encrypted(file.name),
           ~is_encrypted(file.name) \/ DecryptKey(typed) = EncryptKey(file.passphrase),
           file.docs, version)

----------------------------------------------------------------------------
(* no_cloud/cli.py: password. *)

ascii_lowercase == AsSeq([i \in 1..26 |-> 96 + i], 26)
ascii_uppercase == AsSeq([i \in 1..26 |-> 64 + i], 26)
digits == AsSeq([i \in 1..10 |-> 47 + i], 10)
punctuation ==
    <<33, 34, 35, 36, 37, 38, 39, 40, 41, 42, 43, 44, 45, 46, 47,
      58, 59, 60, 61, 62, 63, 64, 91, 92, 93, 94, 95, 96, 123, 124, 125, 126>>

\* s * k of Python.
RECURSIVE Repeat(_, _)
Repeat(s, k) == IF k <= 0 THEN <<>> ELSE s \o Repeat(s, k - 1)

\* c in text
In(c, text) == \E i \in 1..Len(text.val) : text.val[i] = c

\* An alphabet in the order of the option's characters.
RECURSIVE AlphabetInOptionOrder(_)
AlphabetInOptionOrder(characters) ==
    IF characters.val = <<>> THEN <<>>
    ELSE (IF Head(characters.val) = 108 THEN Repeat(ascii_lowercase, 3)
          ELSE IF Head(characters.val) = 117 THEN Repeat(ascii_uppercase, 3)
          ELSE IF Head(characters.val) = 100 THEN Repeat(digits, 3)
          ELSE IF Head(characters.val) = 112 THEN Repeat(punctuation, 2)
          ELSE <<>>)
         \o AlphabetInOptionOrder(Text(Tail(characters.val)))

\* cli.py 359-367: the alphabet of the digest.
Alphabet(characters) ==
    (IF In(108, characters) THEN Repeat(ascii_lowercase, 3) ELSE <<>>)
    \o (IF In(117, characters) THEN Repeat(ascii_uppercase, 3) ELSE <<>>)
    \o (IF In(100, characters) THEN Repeat(digits, 3) ELSE <<>>)
    \o (IF In(112, characters) THEN Repeat(punctuation, 2) ELSE <<>>)

ConfigKeys == {"service", "username", "iterations", "characters", "length",
               "password", "comment"}

\* A dict with some of ConfigKeys: the keys it holds, and their values.
Dict(keys, service, username, iterations, characters, length, pw, comment) ==
    [keys |-> keys, service |-> service, username |-> username,
     iterations |-> iterations, characters |-> characters, length |-> length,
     password |-> pw, comment |-> comment]

NoDict == Dict({}, NoValue, NoValue, 0, NoValue, 0, NoValue, NoValue)

\* config.update(data)
Update(cfg, data) ==
    LET pick(k, a, b) == IF k \in data.keys THEN b ELSE a
    IN  Dict(cfg.keys \cup data.keys,
             pick("service", cfg.service, data.service),
             pick("username", cfg.username, data.username),
             pick("iterations", cfg.iterations, data.iterations),
             pick("characters", cfg.characters, data.characters),
             pick("length", cfg.length, data.length),
             pick("password", cfg.password, data.password),
             pick("comment", cfg.comment, data.comment))

\* cli.py 327-333: the dict made of the command's options.
OptionsConfig(in) ==
    Dict({"service", "username", "iterations", "characters", "length"},
         in.service, in.username, in.iterations, in.characters, in.length,
         NoValue, NoValue)

NoPassword == [source |-> "none", value |-> NoValue]

\* How a run ends: everything the command did.
Ended(ev, kind, msg, cfg, alpha, ch, em, clip) ==
    [events |-> ev, outcome |-> [kind |-> kind, msg |-> msg], config |-> cfg,
     alphabet |-> alpha, chain |-> ch, emitted |-> em, clipboard |-> clip]

\* main(): an AssertionError is printed by die(), and the command exits.
Died(ev, msg, cfg, alpha, clip) ==
    Ended(Append(ev, Echo("error", NoValue)), "AssertionError", msg, cfg, alpha,
          <<>>, NoPassword, clip)

\* Any other exception ends the command with a traceback.
Crashed(ev, kind, cfg, alpha, clip) ==
    Ended(ev, kind, "", cfg, alpha, <<>>, NoPassword, clip)

\* done(password): cli.py 335-345.
done(ev, cfg, alpha, ch, source, pw, noClipboard, clip) ==
    Ended(ev \o <<Echo("service", cfg.service), Echo("username", cfg.username),
                  Echo("password", IF ~noClipboard THEN copy_to_clipboard(clip, pw)
                                   ELSE pw)>>
             \o (IF "comment" \in cfg.keys
                 THEN <<Echo("comment", cfg.comment)>> ELSE <<>>),
          "ok", "", cfg, alpha, ch, [source |-> source, value |-> pw],
          IF ~noClipboard THEN ClipboardAfterCopy(clip, pw) ELSE clip)

\* get_password('Master password', confirm=True): its two prompts.
MasterPrompts == <<Prompt("Master password"), Prompt("Confirmation")>>

\* A derivation that reads the clipboard.
DigestedFromClipboard(in, clip, ev, cfg, alpha, h1, h2) ==
    done(ev, cfg, alpha, <<h1.val, h2.val>>, "derived",
         Text(digest(IF clip.content = NoValue THEN h2.val ELSE h1.val, alpha,
                     cfg.length)), in.noClipboard, clip)

\* cli.py 376-378: the digest of the second hash is the password.
Digested(in, clip, ev, cfg, alpha, h1, h2) ==
    done(ev, cfg, alpha, <<h1.val, h2.val>>, "derived",
         Text(digest(h2.val, alpha, cfg.length)), in.noClipboard, clip)

\* cli.py 374: the second hash.
Hashed(in, clip, ev, cfg, alpha, h1) ==
    Digested(in, clip, ev, cfg, alpha, h1,
             sha512_hash(cfg.service, h1, cfg.iterations))

\* cli.py 369-373: the alphabet must not be empty; the master password is
\* asked for, twice; the first hash (pbkdf2_hmac raises ValueError for less
\* than one iteration).
Derive(in, clip, ev, cfg, alpha) ==
    IF Len(alpha) = 0
    THEN Died(ev, "invalid characters", cfg, alpha, clip)
    ELSE IF in.master # in.confirmation
    THEN Died(ev \o MasterPrompts, "password and confirmation must match", cfg,
              alpha, clip)
    ELSE IF cfg.iterations < 1
    THEN Crashed(ev \o MasterPrompts, "ValueError", cfg, alpha, clip)
    ELSE Hashed(in, clip, ev \o MasterPrompts, cfg, alpha,
                sha512_hash(cfg.username, in.master, cfg.iterations))

\* cli.py 352-367: the checks of the configuration, the password it may
\* hold, the alphabet.
Validate(in, clip, ev, cfg) ==
    IF cfg.service.val = <<>>
    THEN Died(ev, "missing service", cfg, <<>>, clip)
    ELSE IF cfg.username.val = <<>>
    THEN Died(ev, "missing username", cfg, <<>>, clip)
    ELSE IF ~(cfg.length > 0)
    THEN Died(ev, "invalid length", cfg, <<>>, clip)
    ELSE IF "password" \in cfg.keys
    THEN done(ev, cfg, <<>>, <<>>, "stored", cfg.password, in.noClipboard, clip)
    ELSE Derive(in, clip, ev, cfg, Alphabet(cfg.characters))

\* cli.py 347-350: the document of the file updates the options; a file
\* that has no such document gives None, and config.update(None) raises
\* TypeError.
AfterLoad(in, clip, loaded) ==
    IF ~loaded.ok
    THEN Died(loaded.events, "invalid decryption password", NoDict, <<>>, clip)
    ELSE IF ~loaded.data.found
    THEN Crashed(loaded.events, "TypeError", NoDict, <<>>, clip)
    ELSE Validate(in, clip, loaded.events,
                  Update(OptionsConfig(in), loaded.data.doc))

\* password(...): one run of the command on the options and typed input `in`,
\* with the clipboard `clip`.
password(in, clip) ==
    IF in.file.name # <<>>
    THEN AfterLoad(in, clip, load_configuration(in.file, in.version, in.decryption))
    ELSE Validate(in, clip, <<>>, OptionsConfig(in))

----
(* The cipher scenario: encrypt, perhaps flip one bit of the token, decrypt. *)

\* "pw1", "pw2", ..; the text u"p\u00e9"; the bytes of its UTF-8 encoding.
Passphrases ==
    {Text(<<112, 119, 48 + i>>) : i \in 1..NumPass}
    \cup {Text(<<112, 233>>), Bytes(<<112, 195, 169>>)}

Hello == <<104, 101, 108, 108, 111, 32, 119, 111, 114, 108, 100>>

Plaintexts == {Hello} \cup {Rep(120, BlockLen * i) : i \in 1..MaxPlainBlocks}

\* int(time.time()) when the token is made.
Times == {1478343600}

IVs == {[i \in 1..BlockLen |-> (17 * b + i) % 256] : b \in 0..(NumIVs - 1)}

\* b with bit `bit` (0 the lowest) flipped.
FlipBit(b, bit) ==
    IF (b \div Pow2(bit)) % 2 = 1 THEN b - Pow2(bit) ELSE b + Pow2(bit)

FlipAt(s, pos, bit) == [s EXCEPT ![pos] = FlipBit(s[pos], bit)]

\* The state of a part of the program a specification does not run.
CipherIdle ==
    /\ phase = "idle"
    /\ plaintext = <<>>
    /\ encPassword = NoValue
    /\ token = <<>>
    /\ macLog = {}
    /\ flipped = <<>>
    /\ decPassword = NoValue
    /\ result = NoResult

NoInput ==
    [service |-> NoValue, username |-> NoValue, iterations |-> 0,
     characters |-> NoValue, length |-> 0,
     file |-> [name |-> <<>>, passphrase |-> NoValue, docs |-> <<>>],
     version |-> 0, noClipboard |-> FALSE, decryption |-> NoValue,
     master |-> NoValue, confirmation |-> NoValue]

NoOutcome == [kind |-> "none", msg |-> ""]

NotRun ==
    /\ runs = 0
    /\ disturbed = FALSE
    /\ events = <<>>
    /\ outcome = NoOutcome
    /\ config = NoDict
    /\ alphabet = <<>>
    /\ chain = <<>>
    /\ emitted = NoPassword
    /\ firstDerived = NoPassword

PasswordIdle ==
    /\ input = NoInput
    /\ clipboard = [works |-> FALSE, content |-> NoValue]
    /\ NotRun

DigestIdle ==
    /\ dHashed = <<>>
    /\ dChars = <<>>
    /\ dLength = 0
    /\ dOut = [done |-> FALSE, val |-> <<>>]

\* A command that did not start.
Idle == [phase |-> "idle"]

FilesIdle ==
    /\ tree = <<>>
    /\ orig = <<>>
    /\ rn = Idle
    /\ vc = Idle
    /\ fp = Idle

InitCipher == CipherIdle /\ PasswordIdle /\ DigestIdle /\ FilesIdle

\* What HMAC logs when it signs a body.
MacEntry(signing, body) == <<signing, body, HMACTag(signing, body)>>

Signed(key, m, now, iv) == MacEntry(key.signing, FernetBody(key, m, now, iv))

Encrypt ==
    /\ phase = "idle"
    /\ \E m \in Plaintexts, k \in Passphrases, now \in Times, iv \in IVs :
        /\ plaintext' = m
        /\ encPassword' = k
        /\ token' = fernet_encrypt(m, k, now, iv)
        /\ macLog' = macLog \cup {Signed(FernetKey(EncryptKey(k)), m, now, iv)}
    /\ phase' = "token"
    /\ UNCHANGED <<flipped, decPassword, result, passwordVars, digestVars,
                   fileVars>>

\* Somebody flips one bit of the stored token.
Tamper ==
    /\ phase = "token"
    /\ flipped = <<>>
    /\ \E pos \in 1..Len(token), bit \in 0..7 :
        /\ token' = FlipAt(token, pos, bit)
        /\ flipped' = <<pos, bit>>
    /\ UNCHANGED <<phase, plaintext, encPassword, macLog, decPassword, result,
                   passwordVars, digestVars,
                   fileVars>>

\* A tampered token is decrypted with the passphrase it was encrypted with,
\* an intact one with any passphrase.
Decrypt ==
    /\ phase = "token"
    /\ \E k \in Passphrases :
        /\ flipped # <<>> => k = encPassword
        /\ decPassword' = k
        /\ result' = fernet_decrypt(token, k)
    /\ phase' = "done"
    /\ UNCHANGED <<plaintext, encPassword, token, macLog, flipped,
                   passwordVars, digestVars,
                   fileVars>>

NextCipher == Encrypt \/ Tamper \/ Decrypt

SpecCipher == InitCipher /\ [][NextCipher]_vars

----------------------------------------------------------------------------
(* The password command, run and run again on the same input while another  *)
(* program uses the clipboard.                                              *)

Services == {Text(<<>>), Text(<<115>>)}      \* '', 's'
Usernames == {Text(<<>>), Text(<<117>>)}     \* '', 'u'
Masters == {Text(<<109>>), Text(<<110>>)}    \* 'm', 'n'
Stored == Text(<<83>>)                       \* a password kept in the YAML file
Comment == Text(<<99>>)
Other == Text(<<111>>)                       \* what another program copies

\* --characters: '', 'l', 'u', 'd', 'p', 'ld', 'dl', 'ludp', 'xu'
CharacterOptions ==
    {Text(<<>>), Text(<<108>>), Text(<<117>>), Text(<<100>>), Text(<<112>>),
     Text(<<108, 100>>), Text(<<100, 108>>), Text(<<108, 117, 100, 112>>),
     Text(<<120, 117>>)}

DefaultLength == 32
LengthOptions == {0, 1, DefaultLength, HashLen}

Doc(keys, service, characters, length) ==
    Dict(keys, service, NoValue, 0, characters, length, Stored, Comment)

\* The YAML documents of the files.
DocComment == Doc({"comment"}, NoValue, NoValue, 0)
DocStored == Doc({"password"}, NoValue, NoValue, 0)
DocStoredNoClass == Doc({"password", "characters", "comment"}, NoValue, Text(<<>>), 0)
DocNoService == Doc({"service"}, Text(<<>>), NoValue, 0)
DocDigits == Doc({"characters", "length"}, NoValue, Text(<<100>>), 1)
DocNoLength == Doc({"length", "password"}, NoValue, NoValue, 0)

ClearName == <<99, 46, 121, 109, 108>>    \* 'c.yml'
CryptName == ClearName \o DotCrypt        \* 'c.yml.crypt'

File(name, passphrase, docs) == [name |-> name, passphrase |-> passphrase, docs |-> docs]
NoFile == File(<<>>, NoValue, <<>>)

Files ==
    {File(ClearName, NoValue, <<d>>) :
        d \in {DocComment, DocStored, DocStoredNoClass, DocNoService, DocDigits,
               DocNoLength}}
    \cup {File(ClearName, NoValue, <<DocDigits, DocStored>>),
          File(CryptName, Text(<<112, 119, 49>>), <<DocComment>>)}

Input(service, username, iterations, characters, length, file, version, noClipboard, decryption, master, confirmation) ==
    [service |-> service, username |-> username, iterations |-> iterations,
     characters |-> characters, length |-> length, file |-> file,
     version |-> version, noClipboard |-> noClipboard, decryption |-> decryption,
     master |-> master, confirmation |-> confirmation]

\* The command lines explored: every combination of the options without a
\* file; with a file, the options that the documents interact with.
PasswordInputs ==
    {Input(s, u, it, c, l, NoFile, 0, nc, NoValue, m, cf) :
        s \in Services, u \in Usernames, it \in 0..MaxIterations,
        c \in CharacterOptions, l \in LengthOptions, nc \in BOOLEAN,
        m \in Masters, cf \in {Text(<<109>>)}}
    \cup
    {Input(s, u, 1, c, l, f, v, TRUE, d, Text(<<109>>), Text(<<109>>)) :
        s \in Services, u \in {Text(<<117>>)},
        c \in {Text(<<>>), Text(<<108, 117, 100, 112>>)},
        l \in {0, DefaultLength}, f \in Files, v \in 0..1,
        d \in {Text(<<112, 119, 49>>), Text(<<112, 119, 50>>)}}

InitPassword ==
    /\ CipherIdle
    /\ DigestIdle
    /\ FilesIdle
    /\ input \in PasswordInputs
    /\ clipboard \in {[works |-> w, content |-> NoValue] : w \in BOOLEAN}
    /\ NotRun

\* One run of the command.
Password ==
    /\ runs < MaxRuns
    /\ \E r \in {password(input, clipboard)} :
        /\ events' = r.events
        /\ outcome' = r.outcome
        /\ config' = r.config
        /\ alphabet' = r.alphabet
        /\ chain' = r.chain
        /\ emitted' = r.emitted
        /\ clipboard' = r.clipboard
        /\ firstDerived' = IF firstDerived.source = "none" /\ r.emitted.source = "derived"
                           THEN r.emitted ELSE firstDerived
    /\ runs' = runs + 1
    /\ UNCHANGED <<input, disturbed, cipherVars, digestVars,
                   fileVars>>

\* Another program copies something to the clipboard.
OtherCopy ==
    /\ clipboard.works
    /\ clipboard.content # Other
    /\ clipboard' = [clipboard EXCEPT !.content = Other]
    /\ disturbed' = (disturbed \/ runs > 0)
    /\ UNCHANGED <<input, runs, events, outcome, config, alphabet, chain, emitted,
                   firstDerived, cipherVars, digestVars,
                   fileVars>>

NextPassword == Password \/ OtherCopy

SpecPassword == InitPassword /\ [][NextPassword]_vars

----------------------------------------------------------------------------
(* digest() applied to byte strings, alphabets and lengths of all shapes. *)

DigestBytes == {0, 1, 2, 255}

SeqsUpTo(S, n) == UNION {[1..k -> S] : k \in 0..n}

InitDigest ==
    /\ CipherIdle
    /\ PasswordIdle
    /\ FilesIdle
    /\ dHashed \in SeqsUpTo(DigestBytes, MaxHashBytes)
    /\ dChars \in {AsSeq([i \in 1..n |-> 96 + i], n) : n \in 1..MaxAlphabet}
    /\ dLength \in (-1)..(MaxHashBytes + 1)
    /\ dOut = [done |-> FALSE, val |-> <<>>]

ApplyDigest ==
    /\ ~dOut.done
    /\ dOut' = [done |-> TRUE, val |-> digest(dHashed, dChars, dLength)]
    /\ UNCHANGED <<dHashed, dChars, dLength, cipherVars, passwordVars,
                   fileVars>>

NextDigest == ApplyDigest

SpecDigest == InitDigest /\ [][NextDigest]_vars

----------------------------------------------------------------------------
(* no_cloud/fs.py: list_files; no_cloud/utils.py: ignored.                   *)

\* ignored(filename): '.hg', '.git', '.env', '.DS_Store', '.localized'
IgnoredPatterns ==
    {<<46, 104, 103>>, <<46, 103, 105, 116>>, <<46, 101, 110, 118>>,
     <<46, 68, 83, 95, 83, 116, 111, 114, 101>>,
     <<46, 108, 111, 99, 97, 108, 105, 122, 101, 100>>}

ignored(filename) == filename \in IgnoredPatterns

\* The orders in which a set can be listed.
Perms(S) ==
    {f \in [1..Cardinality(S) -> S] : \A i, j \in 1..Cardinality(S) : f[i] = f[j] => i = j}

\* os.walk(root): the files under root that are not ignored, named as the
\* loop of list_files names them, in every order the directory may list them.
Walked(t, root) ==
    {f \in DOMAIN t :
        /\ t[f].kind = "file"
        /\ StartsWith(f, RStrip(Resolve(root), Slash) \o <<Slash>>)
        /\ ~ignored(basename(f))}

WalkName(root, f) ==
    cleanup_path(root \o <<Slash>>
                 \o SubSeq(f, Len(RStrip(Resolve(root), Slash)) + 2, Len(f)))

Walk(t, root) ==
    {[i \in 1..Cardinality(Walked(t, root)) |-> WalkName(root, order[i])] :
        order \in Perms(Walked(t, root))}

\* list_files(root) for one root that is not a list: what it may yield.
list_files_of(t, root) ==
    IF isfile(t, root) THEN {<<abspath(root)>>}
    ELSE IF isdir(t, root) THEN Walk(t, root)
    ELSE {<<>>}

\* list_files(roots) for a tuple of roots, run to its end on the tree t.
RECURSIVE list_files(_, _)
list_files(t, roots) ==
    IF roots = <<>> THEN {<<>>}
    ELSE {AsSeq(a \o b, Len(a) + Len(b)) :
            a \in list_files_of(t, Head(roots)), b \in list_files(t, Tail(roots))}

----------------------------------------------------------------------------
(* no_cloud/cli.py: rename.                                                  *)

\* str(n)
RECURSIVE Decimal(_)
Decimal(n) == IF n < 10 THEN <<48 + n>> ELSE Decimal(n \div 10) \o <<48 + (n % 10)>>

\* ('%0' + str(width) + 'd') % i
Format(i, width) ==
    IF Len(Decimal(i)) >= width THEN Decimal(i)
    ELSE Rep(48, width - Len(Decimal(i))) \o Decimal(i)

\* re.compile(pattern).sub(repl, s), for the patterns '^', '.' and one
\* literal character, and a replacement without backslashes.
RECURSIVE SubChars(_, _, _)
SubChars(pattern, repl, s) ==
    IF s = <<>> THEN <<>>
    ELSE (IF pattern = <<Dot>> \/ pattern = <<Head(s)>> THEN repl ELSE <<Head(s)>>)
         \o SubChars(pattern, repl, Tail(s))

Sub(pattern, repl, s) ==
    IF pattern = <<94>> THEN repl \o s ELSE SubChars(pattern, repl, s)

\* os.rename(src, dst) on the tree t: the tree after it, or OSError.
os_rename(t, src, dst) ==
    IF \/ Resolve(src) \notin DOMAIN t
       \/ dst = <<>>
       \/ dst[Len(dst)] = Slash /\ t[Resolve(src)].kind = "file"
       \/ ~isdir(t, dirname(Resolve(dst)))
       \/ isdir(t, dst) /\ t[Resolve(src)].kind = "file"
    THEN [ok |-> FALSE, tree |-> t]
    ELSE IF Resolve(src) = Resolve(dst) THEN [ok |-> TRUE, tree |-> t]
    ELSE [ok |-> TRUE,
          tree |-> Put(Remove(t, Resolve(src)), Resolve(dst), t[Resolve(src)])]

RenameIdle ==
    [phase |-> "idle", msg |-> "", force |-> FALSE, dry_run |-> FALSE,
     pattern |-> <<>>, replacement |-> <<>>, width |-> 0, files |-> <<>>, i |-> 1,
     echoed |-> <<>>]

\* How the command stands after its last statement, an AssertionError
\* (main() prints it and exits) or another exception.
RenameEnded(r, ph, msg) == [r EXCEPT !.phase = ph, !.msg = msg]

\* cli.py 412-418: the entry of `files` of a file name.
RenameEntry(filename) ==
    [path |-> dirname(filename), src |-> basename(filename)]

\* cli.py 400-421: the checks of the pattern, the list of files, the split
\* of the pattern. `filenames` is what list_files(paths) yielded.
RenameParsed(force, dry_run, body, filenames) ==
    IF Find(body, Slash) = 0
    THEN RenameEnded(RenameIdle, "crashed", "ValueError")
    ELSE [phase |-> IF filenames = <<>> THEN "ok" ELSE "loop", msg |-> "",
          force |-> force, dry_run |-> dry_run,
          pattern |-> SubSeq(body, 1, Find(body, Slash) - 1),
          replacement |-> SubSeq(body, Find(body, Slash) + 1, Len(body)),
          width |-> Len(Decimal(Len(filenames))),
          files |-> AsSeq([k \in 1..Len(filenames) |-> RenameEntry(filenames[k])],
                          Len(filenames)),
          i |-> 1, echoed |-> <<>>]

rename_begin(force, dry_run, pattern, filenames) ==
    IF ~StartsWith(pattern, <<115, Slash>>) \/ ~EndsWith(pattern, <<Slash>>)
    THEN RenameEnded(RenameIdle, "died", "invalid pattern")
    ELSE RenameParsed(force, dry_run, SubSeq(pattern, 3, Len(pattern) - 1), filenames)

\* cli.py 425-429: the source and the destination of the file at hand.
RenameSrc(r) == r.files[r.i].path \o <<Slash>> \o r.files[r.i].src

RenameDst(r) ==
    r.files[r.i].path \o <<Slash>>
    \o Sub(r.pattern, Replace(r.replacement, <<36, 105>>, Format(r.i, r.width)),
           r.files[r.i].src)

\* cli.py 438-440: os.rename, and on to the next file.
RenameMoved(r, t, moved) ==
    IF ~moved.ok
    THEN [rn |-> RenameEnded(r, "crashed", "OSError"), tree |-> t]
    ELSE [rn |-> [r EXCEPT !.i = r.i + 1,
                           !.phase = IF r.i = Len(r.files) THEN "ok" ELSE "loop"],
          tree |-> moved.tree]

\* A turn that renames whatever the destination is.
RenameTurnUnchecked(r, t, src, dst) ==
    IF r.dry_run
    THEN RenameMoved(r, t, [ok |-> TRUE, tree |-> t])
    ELSE RenameMoved(r, t, os_rename(t, src, dst))

\* cli.py 424-440: one turn of the loop, for the file at hand, with its
\* source and destination.
RenameTurn(r, t, src, dst) ==
    IF r.dry_run
    THEN RenameMoved(r, t, [ok |-> TRUE, tree |-> t])
    ELSE IF ~r.force /\ isfile(t, dst)
    THEN [rn |-> RenameEnded(r, "died", "destination exists"), tree |-> t]
    ELSE RenameMoved(r, t, os_rename(t, src, dst))

rename_step(r, t) ==
    RenameTurn([r EXCEPT !.echoed = Append(r.echoed, RenameDst(r))], t,
               RenameSrc(r), RenameDst(r))

----------------------------------------------------------------------------
(* The rename scenario: one run of `rename` on a directory /r that holds    *)
(* some of the files 'a', 'b', .. and perhaps 'c', a file or a directory.   *)

RenameDir == <<Slash, 114>>    \* '/r'

InDir(dir, base) == dir \o <<Slash>> \o base

NameChar(i) == IF i < 3 THEN 96 + i ELSE 97 + i    \* 'a', 'b', 'd', ..

PlainNames == {<<NameChar(i)>> : i \in 1..MaxNames}

Target == <<99>>    \* 'c'

\* The directory with the plain files P and 'c' of kind ckind; the content
\* of a file is its first name.
RenameTree(P, ckind) ==
    [q \in {RenameDir} \cup {InDir(RenameDir, n) : n \in P}
            \cup (IF ckind = "none" THEN {} ELSE {InDir(RenameDir, Target)}) |->
        IF q = RenameDir \/ (q = InDir(RenameDir, Target) /\ ckind = "dir")
        THEN Directory
        ELSE FileOf(basename(q))]

RenameTrees ==
    {RenameTree(P, ckind) : P \in SUBSET PlainNames, ckind \in {"none", "file", "dir"}}

\* 's/a/b/', 's/./c/', 's/^/$i/', 's/a/a/', 's/a//', 'x/a/b/', 's/a', 's/'
RenamePatterns ==
    {<<115, 47, 97, 47, 98, 47>>, <<115, 47, 46, 47, 99, 47>>,
     <<115, 47, 94, 47, 36, 105, 47>>, <<115, 47, 97, 47, 97, 47>>,
     <<115, 47, 97, 47, 47>>, <<120, 47, 97, 47, 98, 47>>, <<115, 47, 97>>,
     <<115, 47>>}

\* The paths of the command line: the directory, with or without a slash at
\* its end, or one or two of the plain files.
RenamePaths ==
    {<<RenameDir>>, <<RenameDir \o <<Slash>>>>}
    \cup {<<InDir(RenameDir, n)>> : n \in PlainNames}
    \cup {<<InDir(RenameDir, n), InDir(RenameDir, m)>> : n \in PlainNames, m \in PlainNames}

InitRename ==
    /\ CipherIdle
    /\ PasswordIdle
    /\ DigestIdle
    /\ tree \in RenameTrees
    /\ orig = tree
    /\ rn = RenameIdle
    /\ vc = Idle
    /\ fp = Idle

\* The command starts: cli.py 400-421.
RenameStart ==
    /\ rn.phase = "idle"
    /\ \E force \in BOOLEAN, dry_run \in BOOLEAN, pattern \in RenamePatterns,
          paths \in RenamePaths :
        \E filenames \in list_files(tree, paths) :
            rn' = rename_begin(force, dry_run, pattern, filenames)
    /\ UNCHANGED <<tree, orig, vc, fp, cipherVars, passwordVars, digestVars>>

\* One turn of its loop: cli.py 424-440.
RenameStep ==
    /\ rn.phase = "loop"
    /\ \E r \in {rename_step(rn, tree)} :
        /\ rn' = r.rn
        /\ tree' = r.tree
    /\ UNCHANGED <<orig, vc, fp, cipherVars, passwordVars, digestVars>>

NextRename == RenameStart \/ RenameStep

SpecRename == InitRename /\ [][NextRename]_vars

----------------------------------------------------------------------------
(* no_cloud/cli.py: encrypt, decrypt.                                        *)
(* list_files(paths) is a generator: a root is looked at, and a directory   *)
(* listed, when the loop comes to it.                                       *)

VaultIdle ==
    [cmd |-> "none", phase |-> "idle", msg |-> "", dry_run |-> FALSE,
     keep |-> FALSE, password |-> NoValue, paths |-> <<>>, roots |-> <<>>,
     pending |-> <<>>, filename |-> <<>>, echoed |-> <<>>, previous |-> <<>>]

\* Where the `for` statement stands: the generator has more to yield, or not.
VaultPhase(roots, pending) ==
    IF roots = <<>> /\ pending = <<>> THEN "ok" ELSE "loop"

VaultBegun(cmd, dry_run, keep, paths, typed) ==
    [VaultIdle EXCEPT !.cmd = cmd, !.phase = VaultPhase(paths, <<>>),
                      !.dry_run = dry_run, !.keep = keep,
                      !.password = IF dry_run THEN NoValue ELSE typed,
                      !.paths = paths, !.roots = paths]

VaultEnded(v, ph, msg) == [v EXCEPT !.phase = ph, !.msg = msg]

\* cli.py 166-167: get_password('Encryption password', confirm=True)
encrypt_begin(dry_run, keep, paths, typed, confirmation) ==
    IF ~dry_run /\ typed # confirmation
    THEN VaultEnded([VaultIdle EXCEPT !.cmd = "encrypt"], "died",
                    "password and confirmation must match")
    ELSE VaultBegun("encrypt", dry_run, keep, paths, typed)

\* cli.py 208: get_password('Decryption Password')
decrypt_begin(dry_run, keep, paths, typed) ==
    VaultBegun("decrypt", dry_run, keep, paths, typed)

\* The generator comes to its next root: fs.py 50-61.
VaultListed(v, yielded) ==
    [v EXCEPT !.roots = Tail(v.roots), !.pending = yielded,
              !.phase = VaultPhase(Tail(v.roots), yielded)]

\* `continue`, or the end of the loop's body.
VaultContinue(v) ==
    [v EXCEPT !.pending = Tail(v.pending),
              !.phase = VaultPhase(v.roots, Tail(v.pending))]

\* echo(filename)
VaultEcho(v) == [v EXCEPT !.echoed = Append(v.echoed, Head(v.pending))]

VaultStep(v, t, signed) == [vc |-> v, tree |-> t, signed |-> signed]

\* cli.py 183-187: the token is written to filename + '.crypt', the clear
\* file removed.
EncryptWritten(v, t, f, tok, signed) ==
    IF isdir(t, f \o DotCrypt)
    THEN VaultStep(VaultEnded(v, "crashed", "IOError"), t, {})
    ELSE VaultStep(VaultContinue(v),
                   IF v.keep THEN Put(t, Resolve(f \o DotCrypt), FileOf(tok))
                   ELSE Remove(Put(t, Resolve(f \o DotCrypt), FileOf(tok)), Resolve(f)),
                   signed)

\* cli.py 170-187: the body of the loop of encrypt, for the file name f.
EncryptBody(v, t, f, now, iv) ==
    IF is_encrypted(f) THEN VaultStep(VaultContinue(v), t, {})
    ELSE IF v.dry_run THEN VaultStep(VaultContinue(VaultEcho(v)), t, {})
    ELSE IF ~isfile(t, f)
    THEN VaultStep(VaultEnded(VaultEcho(v), "crashed", "IOError"), t, {})
    ELSE EncryptWritten(VaultEcho(v), t, f,
                        fernet_encrypt(Read(t, f), v.password, now, iv),
                        {Signed(FernetKey(EncryptKey(v.password)), Read(t, f), now, iv)})

encrypt_file(v, t, now, iv) == EncryptBody(v, t, Head(v.pending), now, iv)

\* A decrypt that opened the plaintext file for writing before it decrypts.
DecryptWrittenTruncating(v, t, f, r) ==
    IF r.kind = "AssertionError"
    THEN VaultStep(VaultEnded(v, "died", r.msg),
                   Put(t, Resolve(splitext(f)[1]), FileOf(<<>>)), {})
    ELSE IF r.kind # "return" \/ isdir(t, splitext(f)[1])
    THEN VaultStep(VaultEnded(v, "crashed", "IOError"), t, {})
    ELSE VaultStep(IF v.keep THEN VaultContinue(v)
                   ELSE [v EXCEPT !.phase = "remove", !.filename = f],
                   Put(t, Resolve(splitext(f)[1]), FileOf(r.data)), {})

\* cli.py 222-226: fernet_decrypt raises, or the plaintext is written to the
\* name without its extension.
DecryptWritten(v, t, f, r) ==
    IF r.kind = "AssertionError" THEN VaultStep(VaultEnded(v, "died", r.msg), t, {})
    ELSE IF r.kind # "return" \/ isdir(t, splitext(f)[1])
    THEN VaultStep(VaultEnded(v, "crashed", "IOError"), t, {})
    ELSE VaultStep(IF v.keep THEN VaultContinue(v)
                   ELSE [v EXCEPT !.phase = "remove", !.filename = f],
                   Put(t, Resolve(splitext(f)[1]), FileOf(r.data)), {})

\* cli.py 211-226: the body of the loop of decrypt, up to the plaintext
\* written, for the file name f.
DecryptBody(v, t, f) ==
    IF ~is_encrypted(f) THEN VaultStep(VaultContinue(v), t, {})
    ELSE IF v.dry_run THEN VaultStep(VaultContinue(VaultEcho(v)), t, {})
    ELSE IF ~isfile(t, f)
    THEN VaultStep(VaultEnded(VaultEcho(v), "crashed", "IOError"), t, {})
    ELSE DecryptWritten(VaultEcho(v), t, f, fernet_decrypt(Read(t, f), v.password))

decrypt_file(v, t) == DecryptBody(v, t, Head(v.pending))

\* A decrypt that leaves the encrypted file where it is.
decrypt_remove_nothing(v, t) == VaultStep(VaultContinue(v), t, {})

\* cli.py 228-229: os.remove(filename + ext)
decrypt_remove(v, t) ==
    IF ~isfile(t, splitext(v.filename)[1] \o splitext(v.filename)[2])
    THEN VaultStep(VaultEnded(v, "crashed", "OSError"), t, {})
    ELSE VaultStep(VaultContinue(v),
                   Remove(t, Resolve(splitext(v.filename)[1] \o splitext(v.filename)[2])),
                   {})

----------------------------------------------------------------------------
(* The encrypt and decrypt commands on a directory: encrypt, decrypt, or    *)
(* encrypt and then decrypt.  `orig` is the tree before the first command,  *)
(* vc.previous the command that ran before the current one.                 *)

VaultDir == <<Slash, 118>>    \* '/v'

VaultNames == {<<97>>, <<98>>}    \* 'a', 'b'

GitName == <<46, 103, 105, 116>>    \* '.git'

VaultPasswords == {Text(<<112, 119, 49>>), Text(<<112, 119, 50>>)}    \* 'pw1', 'pw2'

OldContent == <<111, 108, 100>>    \* 'old'

OldPassword == Text(<<112, 119, 49>>)

OldTime == 1478343600

OldIV == AsSeq([i \in 1..BlockLen |-> i], BlockLen)

\* A token made by an earlier run of encrypt.
OldToken == fernet_encrypt(OldContent, OldPassword, OldTime, OldIV)

Corrupt == <<122, 122>>    \* 'zz', no token

VaultExtras == {"none", "token", "corrupt", "ignored"}

ExtraName(extra) == IF extra = "ignored" THEN GitName ELSE <<97>> \o DotCrypt

\* The directory with the clear files P, each holding its name, and one
\* more file: 'a.crypt' holding a token or bytes that are none, or '.git'.
VaultTree(P, extra) ==
    [q \in {VaultDir} \cup {InDir(VaultDir, n) : n \in P}
            \cup (IF extra = "none" THEN {} ELSE {InDir(VaultDir, ExtraName(extra))}) |->
        IF q = VaultDir THEN Directory
        ELSE IF basename(q) \in P THEN FileOf(basename(q))
        ELSE IF extra = "token" THEN FileOf(OldToken)
        ELSE FileOf(Corrupt)]

VaultPaths ==
    {<<VaultDir>>, <<InDir(VaultDir, <<97>>)>>,
     <<InDir(VaultDir, <<97>> \o DotCrypt)>>}

InitVault ==
    /\ phase = "idle"
    /\ plaintext = <<>>
    /\ encPassword = NoValue
    /\ token = <<>>
    /\ flipped = <<>>
    /\ decPassword = NoValue
    /\ result = NoResult
    /\ PasswordIdle
    /\ DigestIdle
    /\ \E P \in SUBSET VaultNames, extra \in VaultExtras :
        /\ tree = VaultTree(P, extra)
        /\ macLog = IF extra = "token"
                    THEN {Signed(FernetKey(EncryptKey(OldPassword)), OldContent, OldTime, OldIV)}
                    ELSE {}
    /\ orig = tree
    /\ rn = Idle
    /\ vc = VaultIdle
    /\ fp = Idle

VaultRest ==
    <<phase, plaintext, encPassword, token, flipped, decPassword, result,
      passwordVars, digestVars, orig, rn, fp>>

\* no-cloud encrypt [--dry-run] [--keep] paths
EncryptStart ==
    /\ vc.phase = "idle"
    /\ \E dry_run \in BOOLEAN, keep \in BOOLEAN, paths \in VaultPaths,
          typed \in VaultPasswords, confirmation \in VaultPasswords :
        vc' = encrypt_begin(dry_run, keep, paths, typed, confirmation)
    /\ UNCHANGED <<tree, macLog, VaultRest>>

\* no-cloud decrypt [--dry-run] [--keep] paths, as the first command or after
\* an encrypt that ended well.
DecryptStart ==
    /\ vc.phase = "idle" \/ (vc.phase = "ok" /\ vc.cmd = "encrypt")
    /\ \E dry_run \in BOOLEAN, keep \in BOOLEAN, paths \in VaultPaths,
          typed \in VaultPasswords :
        vc' = [decrypt_begin(dry_run, keep, paths, typed) EXCEPT !.previous = <<vc>>]
    /\ UNCHANGED <<tree, macLog, VaultRest>>

\* The loop asks list_files for its next file and the generator comes to
\* its next root.
VaultList ==
    /\ vc.phase = "loop"
    /\ vc.pending = <<>>
    /\ \E yielded \in list_files_of(tree, Head(vc.roots)) :
        vc' = VaultListed(vc, yielded)
    /\ UNCHANGED <<tree, macLog, VaultRest>>

\* One turn of the loop of encrypt.
EncryptStep ==
    /\ vc.cmd = "encrypt"
    /\ vc.phase = "loop"
    /\ vc.pending # <<>>
    /\ \E now \in Times, iv \in IVs :
        \E r \in {encrypt_file(vc, tree, now, iv)} :
            /\ vc' = r.vc
            /\ tree' = r.tree
            /\ macLog' = macLog \cup r.signed
    /\ UNCHANGED VaultRest

\* One turn of the loop of decrypt, up to the plaintext written.
DecryptStep ==
    /\ vc.cmd = "decrypt"
    /\ vc.phase = "loop"
    /\ vc.pending # <<>>
    /\ \E r \in {decrypt_file(vc, tree)} :
        /\ vc' = r.vc
        /\ tree' = r.tree
    /\ UNCHANGED <<macLog, VaultRest>>

\* The end of that turn: the encrypted file is removed.
DecryptRemove ==
    /\ vc.cmd = "decrypt"
    /\ vc.phase = "remove"
    /\ \E r \in {decrypt_remove(vc, tree)} :
        /\ vc' = r.vc
        /\ tree' = r.tree
    /\ UNCHANGED <<macLog, VaultRest>>

NextVault ==
    \/ EncryptStart
    \/ DecryptStart
    \/ VaultList
    \/ EncryptStep
    \/ DecryptStep
    \/ DecryptRemove

SpecVault == InitVault /\ [][NextVault]_vars

----------------------------------------------------------------------------
(* no_cloud/fs.py: find_in_path; no_cloud/cli.py: push, pull up to the       *)
(* configuration found.  One step of the model is one call of find_in_path. *)

ConfigClear == <<46, 110, 111, 45, 99, 108, 111, 117, 100, 46, 121, 109, 108>>    \* '.no-cloud.yml'

ConfigCrypt == ConfigClear \o DotCrypt

\* cli.py 110-111, 136-137: the candidates, in the order they are passed.
Candidates == <<ConfigCrypt, ConfigClear>>

FindIdle ==
    [phase |-> "idle", msg |-> "", start |-> <<>>, root |-> <<>>, depth |-> 0,
     visited |-> <<>>, found |-> FALSE, candidate |-> <<>>]

\* push(paths), pull(paths): the first call, find_in_path(path, ...).
find_begin(path) ==
    [FindIdle EXCEPT !.phase = "call", !.start = path, !.root = path, !.depth = 1]

\* fs.py 35-36
FindRoot(t, root) == IF isfile(t, root) THEN dirname(root) ELSE root

\* fs.py 38-39: the candidates root holds, by their place in the list.
Holding(t, root, candidates) ==
    {i \in 1..Len(candidates) : isfile(t, root \o <<Slash>> \o candidates[i])}

First(S) == CHOOSE i \in S : \A j \in S : i <= j

\* fs.py 38-45 for the root of lines 35-36; the recursive call is the next
\* step, or the RuntimeError of the interpreter at its recursion limit.
FindCall(f, root, candidates, holding) ==
    IF holding # {}
    THEN [f EXCEPT !.phase = "returned", !.found = TRUE, !.root = root,
                   !.candidate = candidates[First(holding)],
                   !.visited = Append(f.visited, root)]
    ELSE IF root = <<Slash>>
    THEN [f EXCEPT !.phase = "returned", !.found = FALSE, !.root = <<>>,
                   !.visited = Append(f.visited, root)]
    ELSE IF f.depth = RecursionLimit
    THEN [f EXCEPT !.phase = "crashed", !.msg = "RuntimeError",
                   !.visited = Append(f.visited, root)]
    ELSE [f EXCEPT !.root = dirname(root), !.depth = f.depth + 1,
                   !.visited = Append(f.visited, root)]

\* find_in_path(root, *candidates): one call.
find_in_path(f, t, candidates) ==
    FindCall(f, FindRoot(t, f.root), candidates,
             Holding(t, FindRoot(t, f.root), candidates))

\* cli.py 113, 139: assert root and filename, 'no configuration found'
find_assert(f) ==
    IF f.found /\ f.root # <<>> /\ f.candidate # <<>>
    THEN [f EXCEPT !.phase = "configured"]
    ELSE [f EXCEPT !.phase = "died", !.msg = "no configuration found"]

----------------------------------------------------------------------------
(* push or pull of one path: directories /, /h (the working directory),     *)
(* /h/docs, /p and /p/q, the file /h/docs/f, and configuration files in at  *)
(* most two of the directories.                                             *)

DocsName == <<100, 111, 99, 115>>    \* 'docs'

DocsFile == DocsName \o <<Slash, 102>>    \* 'docs/f'

DirP == <<Slash, 112>>    \* '/p'

DirQ == DirP \o <<Slash, 113>>    \* '/p/q'

FindDirs == {<<Slash>>, Cwd, InDir(Cwd, DocsName), DirP, DirQ}

\* '/name' in the root directory, dir '/' name elsewhere.
Under(dir, name) == IF dir = <<Slash>> THEN dir \o name ELSE InDir(dir, name)

ConfigKinds == {"clear", "crypt", "both"}

ConfigFiles(H, kind) ==
    {Under(d, ConfigClear) : d \in IF kind = "crypt" THEN {} ELSE H}
    \cup {Under(d, ConfigCrypt) : d \in IF kind = "clear" THEN {} ELSE H}

FindTree(H, kind) ==
    [q \in (FindDirs \ {<<Slash>>}) \cup {InDir(Cwd, DocsFile)} \cup ConfigFiles(H, kind) |->
        IF q \in FindDirs THEN Directory ELSE FileOf(<<>>)]

FindTrees ==
    {FindTree(H, kind) : H \in {G \in SUBSET FindDirs : Cardinality(G) <= 2},
                         kind \in ConfigKinds}

\* '/p/q', '/p/q/', '/p', '/', '/h/docs', '/h/docs/f', '/p/x', '//p',
\* 'docs', 'docs/f', 'x'
FindPaths ==
    {DirQ, DirQ \o <<Slash>>, DirP, <<Slash>>, InDir(Cwd, DocsName),
     InDir(Cwd, DocsFile), InDir(DirP, <<120>>), <<Slash>> \o DirP,
     DocsName, DocsFile, <<120>>}

InitFind ==
    /\ CipherIdle
    /\ PasswordIdle
    /\ DigestIdle
    /\ tree \in FindTrees
    /\ orig = tree
    /\ rn = Idle
    /\ vc = Idle
    /\ fp = FindIdle

\* no-cloud push path, no-cloud pull path
FindStart ==
    /\ fp.phase = "idle"
    /\ \E path \in FindPaths : fp' = find_begin(path)
    /\ UNCHANGED <<tree, orig, rn, vc, cipherVars, passwordVars, digestVars>>

\* One call of find_in_path.
FindStep ==
    /\ fp.phase = "call"
    /\ fp' = find_in_path(fp, tree, Candidates)
    /\ UNCHANGED <<tree, orig, rn, vc, cipherVars, passwordVars, digestVars>>

\* What push and pull do with what find_in_path returned.
FindAssert ==
    /\ fp.phase = "returned"
    /\ fp' = find_assert(fp)
    /\ UNCHANGED <<tree, orig, rn, vc, cipherVars, passwordVars, digestVars>>

NextFind == FindStart \/ FindStep \/ FindAssert

SpecFind == InitFind /\ [][NextFind]_vars

----------------------------------------------------------------------------
(* The claims about the cipher. *)

AuthenticationError == Raised("AssertionError", "invalid decryption password")

Intact == flipped = <<>>

\* The half of the derived key that Fernet signs with.
SigningKey(k) == FernetKey(EncryptKey(k)).signing

\* C1: decrypting an intact token with the passphrase it was encrypted with
\* returns exactly the plaintext that was encrypted.
C1_RoundTrip ==
    (phase = "done" /\ Intact /\ decPassword = encPassword)
        => result = Returned(plaintext)

C1_Witness ==
    /\ phase = "done"
    /\ Intact
    /\ plaintext = Hello
    /\ encPassword = Text(<<112, 233>>)
    /\ decPassword = encPassword
    /\ result = Returned(Hello)

\* C2 as stated: decrypting an intact token with any other passphrase than
\* the one it was encrypted with fails with the authentication error.
C2_WrongKeyAnyPair ==
    (phase = "done" /\ Intact /\ decPassword # encPassword)
        => result = AuthenticationError

\* C2 as amended: decrypting an intact token with a passphrase whose signing
\* key (the first half of its MD5 hex digest) differs from that of the
\* encrypting passphrase fails with the authentication error and returns no
\* plaintext.
C2_WrongSigningKey ==
    (phase = "done" /\ Intact /\ SigningKey(decPassword) # SigningKey(encPassword))
        => result = AuthenticationError

C2_Witness ==
    /\ phase = "done"
    /\ Intact
    /\ plaintext = Hello
    /\ encPassword = Text(<<112, 119, 49>>)
    /\ decPassword = Text(<<112, 119, 50>>)
    /\ SigningKey(decPassword) # SigningKey(encPassword)
    /\ result = AuthenticationError

\* C3 as stated: decrypting, with the encrypting passphrase, a token one bit
\* of which was flipped fails with the authentication error.
C3_TamperLaw ==
    (phase = "done" /\ ~Intact /\ decPassword = encPassword)
        => result = AuthenticationError

\* The counterpart of C3 that the code keeps: a token with one bit flipped
\* never decrypts to anything but the plaintext that was encrypted.
NoAlteredPlaintext ==
    (phase = "done" /\ ~Intact /\ result.kind = Returned(<<>>).kind)
        => result = Returned(plaintext)

----------------------------------------------------------------------------
(* The claims about the password command. *)

Derived == runs > 0 /\ emitted.source = "derived"

\* The characters of each class, as sets.
ClassOf(c) ==
    IF c = 108 THEN 97..122
    ELSE IF c = 117 THEN 65..90
    ELSE IF c = 100 THEN 48..57
    ELSE IF c = 112 THEN (33..47) \cup (58..64) \cup (91..96) \cup (123..126)
    ELSE {}

SelectedClasses(characters) ==
    UNION {ClassOf(characters.val[i]) : i \in 1..Len(characters.val)}

\* C4: a password derived for a length of 1 to 64 has exactly that many
\* characters, each of them in one of the selected character classes.
C4_LengthAndClasses ==
    (Derived /\ config.length > 0 /\ config.length <= 64)
        => /\ Len(emitted.value.val) = config.length
           /\ \A i \in 1..Len(emitted.value.val) :
                emitted.value.val[i] \in SelectedClasses(config.characters)

C4_Witness ==
    /\ Derived
    /\ config.characters = Text(<<108>>)
    /\ config.length = 32
    /\ Len(emitted.value.val) = 32
    /\ \A i \in 1..32 : emitted.value.val[i] \in 97..122

\* The specification the command works on is invalid.
InvalidSpecification(cfg) ==
    \/ SelectedClasses(cfg.characters) = {}
    \/ cfg.length <= 0
    \/ cfg.service.val = <<>>
    \/ cfg.username.val = <<>>

\* C5 as stated: whenever the specification, made of the options and of the
\* YAML document if there is one, has no character class, a length of zero or
\* less, an empty service or an empty username, the command fails with an
\* AssertionError and outputs no password.
C5_InvalidSpecFails ==
    (runs > 0 /\ config # NoDict /\ InvalidSpecification(config))
        => /\ outcome.kind = "AssertionError"
           /\ emitted = NoPassword
           /\ \A i \in 1..Len(events) : events[i].what # "password"

\* The expected two rounds of hashing.
Round1 ==
    PBKDF2HmacSha512(EncodeUtf8(config.username.val), EncodeUtf8(input.master.val),
                     config.iterations)

Round2 ==
    PBKDF2HmacSha512(EncodeUtf8(config.service.val), Round1, config.iterations)

\* C6: a derived password comes from two rounds with the same iteration
\* count: h1 hashes the username salted with the master password, h2 hashes
\* the service salted with h1, and the password is the digest of h2.
C6_HashChain ==
    Derived
        => /\ chain = <<Round1, Round2>>
           /\ emitted.value = Text(digest(Round2, alphabet, config.length))

C6_Witness ==
    /\ Derived
    /\ config.service = Text(<<115>>)
    /\ config.username = Text(<<117>>)
    /\ config.iterations = 2
    /\ chain = <<Round1, Round2>>
    /\ Round1 # PBKDF2HmacSha512(EncodeUtf8(input.master.val),
                                 EncodeUtf8(config.username.val), config.iterations)
    /\ Round2 # PBKDF2HmacSha512(Round1, EncodeUtf8(config.service.val),
                                 config.iterations)

\* The command got as far as building the alphabet.
AlphabetBuilt ==
    \/ Derived
    \/ /\ runs > 0
       /\ \/ outcome.msg \in {"invalid characters",
                              "password and confirmation must match"}
          \/ outcome.kind = "ValueError"

\* k copies of a class, one after the other.
Copies(class, k) ==
    AsSeq([i \in 1..(k * Len(class)) |-> class[((i - 1) % Len(class)) + 1]],
          k * Len(class))

\* The alphabet of a set of selected letters.
AlphabetOfSet(selected) ==
    (IF 108 \in selected THEN Copies(ascii_lowercase, 3) ELSE <<>>)
    \o (IF 117 \in selected THEN Copies(ascii_uppercase, 3) ELSE <<>>)
    \o (IF 100 \in selected THEN Copies(digits, 3) ELSE <<>>)
    \o (IF 112 \in selected THEN Copies(punctuation, 2) ELSE <<>>)

\* C8: the alphabet is made of the selected classes only, in the order
\* lowercase, uppercase, digits, punctuation, the first three 3 times each and
\* punctuation 2 times; it depends on the set of letters of the `characters`
\* option, not on their order.
C8_AlphabetOrder ==
    AlphabetBuilt
        => alphabet = AlphabetOfSet({config.characters.val[i] :
                                        i \in 1..Len(config.characters.val)})

C8_Witness ==
    /\ Derived
    /\ config.characters = Text(<<100, 108>>)
    /\ Len(alphabet) = 108
    /\ SubSeq(alphabet, 1, 26) = ascii_lowercase
    /\ SubSeq(alphabet, 79, 88) = digits

C10_MasterPromptFirst ==
    input.file # NoFile
        => \A i \in 1..Len(events) :
            (events[i].op = "echo" /\ events[i].what = "password")
                => \E j \in 1..(i - 1) : events[j] = Prompt("Master password")

\* The part of C10 that the code keeps: a derived password is output after
\* the master password was asked for.
DerivedAfterMasterPrompt ==
    Derived
        => \E i, j \in 1..Len(events) :
            /\ j < i
            /\ events[j] = Prompt("Master password")
            /\ events[i].op = "echo" /\ events[i].what = "password"

----------------------------------------------------------------------------
(* The claim about digest(). *)

\* C7: for a length of 1 to len(hashed), digest(hashed, characters, length)
\* is, for each of the last `length` bytes c of `hashed` in order, the
\* character characters[c mod len(characters)].
C7_DigestClosedForm ==
    (dOut.done /\ dLength >= 1 /\ dLength <= Len(dHashed))
        => dOut.val = AsSeq([i \in 1..dLength |->
                                dChars[(dHashed[Len(dHashed) - dLength + i]
                                            % Len(dChars)) + 1]], dLength)

C7_Witness ==
    /\ dOut.done
    /\ dHashed = <<0, 255, 2>>
    /\ dChars = <<97, 98, 99>>
    /\ dLength = 2
    /\ dOut.val = <<97, 99>>

----------------------------------------------------------------------------
(* The claim about rename. *)

\* Every file there was before the command is still there, under some name,
\* with its content.
NothingLost ==
    \A q \in DOMAIN orig :
        orig[q].kind = "file" => \E x \in DOMAIN tree : tree[x] = orig[q]

\* C11: without --force no file is ever overwritten: every file of the
\* tree is still there after any number of turns of the loop, and a turn
\* whose destination exists as a file leaves the tree as it is and stops the
\* command with 'destination exists'.
C11_NoOverwrite ==
    /\ [](~rn.force => NothingLost)
    /\ [][(/\ rn.phase = "loop"
           /\ ~rn.force
           /\ ~rn.dry_run
           /\ isfile(tree, RenameDst(rn)))
            => (/\ tree' = tree
                /\ rn'.phase = "died"
                /\ rn'.msg = "destination exists")]_vars

C11_Witness ==
    /\ ~rn.force
    /\ ~rn.dry_run
    /\ rn.phase = "died"
    /\ rn.msg = "destination exists"
    /\ rn.i = 2
    /\ rn.echoed[1] = rn.echoed[2]
    /\ isfile(tree, RenameSrc(rn))
    /\ RenameSrc(rn) # RenameDst(rn)
    /\ tree # orig
    /\ NothingLost

----------------------------------------------------------------------------
(* The claims about encrypt and decrypt. *)

\* The files list_files yields for the paths on the tree t.
Listed(t, paths) ==
    UNION {{l[i] : i \in 1..Len(l)} : l \in list_files(t, paths)}

EncryptCompleted == vc.cmd = "encrypt" /\ vc.phase = "ok" /\ ~vc.dry_run

\* F has the sibling F.crypt, a token of F's first content under the
\* passphrase of the command.
HasSibling(F) ==
    /\ isfile(tree, F \o DotCrypt)
    /\ fernet_decrypt(Read(tree, F \o DotCrypt), vc.password) = Returned(Read(orig, F))

\* C12: after encrypt completes without --dry-run, every listed file F whose
\* name does not end in '.crypt' has a sibling F.crypt holding a token of
\* F's content under the entered passphrase; F is removed, or with --keep
\* left unchanged; and every file whose name already ended in '.crypt' is
\* the file it was.
C12_EncryptedSiblings ==
    EncryptCompleted =>
        /\ \A F \in Listed(orig, vc.paths) :
            ~is_encrypted(F) =>
                /\ HasSibling(F)
                /\ IF vc.keep THEN isfile(tree, F) /\ tree[Resolve(F)] = orig[Resolve(F)]
                   ELSE Resolve(F) \notin DOMAIN tree
        /\ \A X \in DOMAIN orig :
            (orig[X].kind = "file" /\ is_encrypted(X)) =>
                X \in DOMAIN tree /\ tree[X] = orig[X]

\* The '.crypt' files a step takes out of the tree.
RemovedEncrypted == {X \in DOMAIN tree \ DOMAIN tree' : is_encrypted(X)}

\* The plaintext of the encrypted file X stands under X's name without the
\* extension.
PlaintextWritten(X) ==
    /\ isfile(tree, splitext(X)[1])
    /\ fernet_decrypt(tree[X].data, vc.password) = Returned(Read(tree, splitext(X)[1]))

\* C13: a step of decrypt that ends the command on a file that does not
\* authenticate changes nothing in the tree, with or without --keep, and a
\* step of decrypt takes a '.crypt' file out of the tree only when its
\* plaintext already stands written under the name without '.crypt'.
C13_AtomicDecrypt ==
    /\ [][(vc.cmd = "decrypt" /\ vc'.phase = "died") => tree' = tree]_vars
    /\ [][(vc.cmd = "decrypt" /\ vc'.cmd = "decrypt") =>
            \A X \in RemovedEncrypted :
                /\ vc.phase = "remove"
                /\ X = Resolve(vc.filename)
                /\ PlaintextWritten(X)]_vars

\* A decrypt with another passphrase than the token's died on a.crypt, and
\* the clear file a beside it and a.crypt are what they were.
C13_Witness ==
    /\ vc.cmd = "decrypt" /\ vc.phase = "died"
    /\ vc.msg = "invalid decryption password"
    /\ vc.previous = <<VaultIdle>>
    /\ vc.password # OldPassword
    /\ Read(tree, Head(vc.pending)) = OldToken
    /\ isfile(tree, splitext(Head(vc.pending))[1])
    /\ tree = orig

\* A decrypt without --keep ended well after an encrypt without --keep,
\* with the same passphrase and on the same paths, started on a tree in
\* which no listed file ends in '.crypt'.
RoundTripDone ==
    /\ vc.cmd = "decrypt" /\ vc.phase = "ok" /\ ~vc.dry_run /\ ~vc.keep
    /\ vc.previous # <<>>
    /\ vc.previous[1].cmd = "encrypt"
    /\ ~vc.previous[1].dry_run /\ ~vc.previous[1].keep
    /\ vc.previous[1].password = vc.password
    /\ vc.previous[1].paths = vc.paths
    /\ \A F \in Listed(orig, vc.paths) : ~is_encrypted(F)

\* C15, as it is stated: after the round trip on the same paths the tree is
\* the tree before the encrypt, names and contents, so with no '.crypt'
\* file that was not there.
C15_RoundTrip == RoundTripDone => tree = orig

\* C15, for paths that are directories: after the round trip the tree is
\* the tree before the encrypt.
C15_RoundTripOfDirectories ==
    (RoundTripDone /\ \A i \in DOMAIN vc.paths : isdir(orig, vc.paths[i])) =>
        tree = orig

\* The round trip on the directory with the files a and b: both were
\* encrypted, both decrypted, and the tree is what it was.
C15_Witness ==
    /\ RoundTripDone
    /\ vc.paths = <<VaultDir>>
    /\ Len(vc.previous[1].echoed) = 2
    /\ Len(vc.echoed) = 2
    /\ \A n \in VaultNames : isfile(tree, InDir(VaultDir, n))
    /\ tree = orig

----------------------------------------------------------------------------
(* The claim about find_in_path. *)

\* The directory in which find_in_path looks for the candidates of a root.
Checked(root) == Resolve(root \o <<Slash>>)

\* The directory the search starts in: fs.py 35-36.
StartDir ==
    IF isfile(tree, fp.start) THEN dirname(Resolve(fp.start)) ELSE Resolve(fp.start)

HoldsCandidate(dir) ==
    \E i \in 1..Len(Candidates) : Under(dir, Candidates[i]) \in DOMAIN tree

Preferred(dir) ==
    IF Under(dir, ConfigCrypt) \in DOMAIN tree THEN ConfigCrypt ELSE ConfigClear

FindOver == fp.phase \in {"returned", "configured", "died"}

\* C14: find_in_path terminates for every starting path: it never runs into
\* the recursion limit; it visits the starting directory and then each
\* ancestor, each once; what it returns is the first visited directory that
\* holds a candidate, with '.no-cloud.yml.crypt' before '.no-cloud.yml', and
\* (None, None) when it came to '/' and none holds one; push and pull end
\* with 'no configuration found' exactly in that last case.
C14_FindTerminates ==
    /\ fp.phase # "crashed"
    /\ \A i, j \in DOMAIN fp.visited :
        Checked(fp.visited[i]) = Checked(fp.visited[j]) => i = j
    /\ \A i \in DOMAIN fp.visited :
        Checked(fp.visited[i]) =
            IF i = 1 THEN StartDir ELSE dirname(Checked(fp.visited[i - 1]))
    /\ (FindOver /\ fp.found) =>
        /\ fp.root = fp.visited[Len(fp.visited)]
        /\ HoldsCandidate(Checked(fp.root))
        /\ fp.candidate = Preferred(Checked(fp.root))
        /\ \A i \in 1..(Len(fp.visited) - 1) : ~HoldsCandidate(Checked(fp.visited[i]))
    /\ (FindOver /\ ~fp.found) =>
        /\ Checked(fp.visited[Len(fp.visited)]) = <<Slash>>
        /\ \A i \in DOMAIN fp.visited : ~HoldsCandidate(Checked(fp.visited[i]))
    /\ fp.phase = "died" => ~fp.found
    /\ fp.phase = "configured" => fp.found

====
